---- MODULE Spec2Model ----
(***************************************************************************)
(* Model of multiworld/envs/mujoco/sawyer_door/sawyer_door_env.py:         *)
(* SawyerDoorEnv and its variants (push-open, push-open action-limited,    *)
(* push-open-and-reach, pull-open).                                        *)
(*                                                                         *)
(* Units.  Lengths are integers in units of 0.005 m (0.06 m = 12).         *)
(* Angles, goals and rewards are integers in units of 1e-4 rad             *)
(* (0.02 rad = 200, 1.5708 rad = 15708).  A raw action component is an     *)
(* integer in units of 0.5, so that after the scaling by                   *)
(* pos_action_scale = 1/100 one action unit is one length unit.            *)
(*                                                                         *)
(* A numpy array is a sequence; an array of shape (1,) is a sequence of    *)
(* length 1.  A raised exception is the string naming it.                  *)
(*                                                                         *)
(* The physics engine (MujocoEnv.do_simulation) is opaque: its effect is   *)
(* a nondeterministic choice (DoSimulation).  The fields a constructor     *)
(* assigns are taken as assigned; each method is modelled by its body.     *)
(***************************************************************************)
EXTENDS Integers, Sequences, FiniteSets, TLC

\* ------------------------------------------------------------ bounds ----
MaxOps == 3            \* number of calls after construction
MaxRaw == 3            \* largest magnitude of a raw action component (units of 0.5)

\* --------------------------------------------------------- constants ----
goal_low == -15708            \* __init__ default goal_low=-1.5708
goal_high == 15708            \* __init__ default goal_high=1.5708
indicator_threshold == 200    \* __init__ default indicator_threshold=0.02
fixed_goal == <<1500, 6000, 3000>>   \* __init__ default fixed_goal=(0.15, 0.6, 0.3)
pos_action_scale == 1         \* 1/100 per unit action = 1 length unit per 0.5 action
ActionLimit == 2              \* np.clip(a, -1, 1), in units of 0.5
ZHeight == 12                 \* the constant 0.06 handed to np.clip(0.06, 0, 0.5)
ZLow == 0
ZHigh == 100
JointLimit == 15708           \* door hinge range of the scene (max_angle = 1.5708)
DoorStep == 7854              \* door movement of one do_simulation call in the model
SettleSteps == 10             \* for _ in range(10) in set_goal_pos
CanonicalQuat == <<1, 0, 1, 0>>
BodyXQuat == <<0, 0, 0, 1>>   \* data.body_xquat[endeff_id]: a unit quaternion

Variants == {"base", "push", "limited", "reach", "pull"}
RewardTypes == {"angle_difference", "hand_success", "bogus"}

\* ----------------------------------------------------------- helpers ----
Abs(x) == IF x < 0 THEN -x ELSE x

\* np.clip(x, lo, hi)
Clip(x, lo, hi) == IF x < lo THEN lo ELSE IF x > hi THEN hi ELSE x

\* elementwise a - b with numpy broadcasting of a length-1 operand
BroadcastLen(a, b) == IF Len(a) >= Len(b) THEN Len(a) ELSE Len(b)
At(a, i) == IF Len(a) = 1 THEN a[1] ELSE a[i]

\* ------------------------------------------------- variant parameters ----
\* SawyerDoorEnv.mocap_set_action clamps neither x nor y
Clamped(v) == v # "base"

\* the x clamp of the variant's mocap_set_action
XRange(v) ==
    CASE v = "push"    -> <<-30, 30>>
      [] v = "reach"   -> <<-30, 30>>
      [] v = "limited" -> <<-20, 20>>
      [] v = "pull"    -> <<-30, 30>>

\* the y clamp of the variant's mocap_set_action
YRange(v) ==
    CASE v = "push"    -> <<100, 400>>
      [] v = "reach"   -> <<100, 400>>
      [] v = "limited" -> <<100, 140>>
      [] v = "pull"    -> <<-600, 140>>

\* the min_angle / max_angle arguments of the variant's constructor
min_angle(v) == IF v = "pull" THEN -5000 ELSE IF v = "base" THEN goal_low ELSE 0
max_angle(v) == IF v = "pull" THEN 0 ELSE IF v = "base" THEN goal_high ELSE 5000

VARIABLES
    variant,        \* the class of the environment
    reward_type,    \* self.reward_type ("unset" in the reach variant)
    fix_goal,       \* self.fix_goal
    init_xpos,      \* end-effector position of the init_angles configuration
    body_xpos,      \* data.body_xpos[endeff_id]
    qpos0,          \* data.qpos[0], the door angle
    qvel0,          \* data.qvel[0]
    mocap_pos,      \* data.mocap_pos[0]
    mocap_quat,     \* data.mocap_quat[0]
    goal_angle,     \* self._goal_angle
    goal_pos,       \* self._goal_pos (reach variant), <<>> elsewhere
    snap,           \* the value last returned by get_env_state, or "none"
    snapS,          \* history: the state in which snap was taken
    phase,          \* lifecycle state of section 4.5: "Ready" or "Stepping"
    ret,            \* what the last operation was given, returned or raised
    nops            \* number of calls so far

vars == <<variant, reward_type, fix_goal, init_xpos, body_xpos, qpos0, qvel0,
          mocap_pos, mocap_quat, goal_angle, goal_pos, snap, snapS, phase,
          ret, nops>>

config == <<variant, reward_type, fix_goal, init_xpos>>
sim == <<body_xpos, qpos0, qvel0, mocap_pos, mocap_quat>>

\* --------------------------------------------------- reward functions ----
\* compute_rewards with a silent fallback to the angle difference
compute_rewards_Fallback(rt, achieved_goals, desired_goals) ==
    LET n == BroadcastLen(achieved_goals, desired_goals)
        r == [i \in 1..n |-> Abs(At(achieved_goals, i) - At(desired_goals, i))]
    IN  IF rt = "hand_success"
        THEN [err |-> "none",
              val |-> [i \in 1..n |->
                         -(IF r[i] < indicator_threshold THEN 1 ELSE 0)]]
        ELSE [err |-> "none", val |-> [i \in 1..n |-> -r[i]]]

\* compute_rewards: r = |achieved - desired| elementwise, then the branch on
\* reward_type.  (r < threshold).astype(float) is 1 where r < threshold.
compute_rewards(rt, achieved_goals, desired_goals) ==
    LET n == BroadcastLen(achieved_goals, desired_goals)
        r == [i \in 1..n |-> Abs(At(achieved_goals, i) - At(desired_goals, i))]
    IN  IF rt = "angle_difference"
        THEN [err |-> "none", val |-> [i \in 1..n |-> -r[i]]]
        ELSE IF rt = "hand_success"
        THEN [err |-> "none",
              val |-> [i \in 1..n |->
                         -(IF r[i] < indicator_threshold THEN 1 ELSE 0)]]
        ELSE [err |-> "NotImplementedError", val |-> <<>>]

\* MultitaskEnv.compute_reward, the single-sample entry step calls: the
\* reward of section 4.3, selected by reward_type as the batch one is
compute_reward(rt, achieved_goal, desired_goal) ==
    compute_rewards(rt, achieved_goal, desired_goal)

\* _get_obs: the six views; the state_ views equal the plain ones
get_obs(xpos, angle, goal) ==
    [observation |-> xpos \o <<angle>>,
     desired_goal |-> goal,
     achieved_goal |-> <<angle>>]

\* ------------------------------------------------------ action mapper ----
\* reset_mocap2body_xpos: the mocap target takes the end effector's pose
reset_mocap2body_xpos(xpos) == [pos |-> xpos, quat |-> BodyXQuat]

\* mocap_set_action without the final set_mocap_quat
mocap_set_action_base_KeepBodyQuat(xpos, action) ==
    LET m == reset_mocap2body_xpos(xpos)
        new == [i \in 1..3 |-> m.pos[i] + action[i]]
    IN  [pos |-> <<new[1], new[2], Clip(ZHeight, ZLow, ZHigh)>>,
         quat |-> m.quat]

\* SawyerDoorEnv.mocap_set_action: only z is set
mocap_set_action_base(xpos, action) ==
    LET m == reset_mocap2body_xpos(xpos)
        new == [i \in 1..3 |-> m.pos[i] + action[i]]
    IN  [pos |-> <<new[1], new[2], Clip(ZHeight, ZLow, ZHigh)>>,
         quat |-> CanonicalQuat]

\* mocap_set_action without the clip of y
mocap_set_action_clamped_NoYClip(v, xpos, action) ==
    LET m == reset_mocap2body_xpos(xpos)
        new == [i \in 1..3 |-> m.pos[i] + action[i]]
    IN  [pos |-> <<Clip(new[1], XRange(v)[1], XRange(v)[2]),
                   new[2],
                   Clip(ZHeight, ZLow, ZHigh)>>,
         quat |-> CanonicalQuat]

\* mocap_set_action of the push-open, action-limited and pull-open classes:
\* reset_mocap2body_xpos, add the displacement, clip x and y, set z, commit
mocap_set_action_clamped(v, xpos, action) ==
    LET m == reset_mocap2body_xpos(xpos)
        new == [i \in 1..3 |-> m.pos[i] + action[i]]
    IN  [pos |-> <<Clip(new[1], XRange(v)[1], XRange(v)[2]),
                   Clip(new[2], YRange(v)[1], YRange(v)[2]),
                   Clip(ZHeight, ZLow, ZHigh)>>,
         quat |-> CanonicalQuat]

mocap_set_action(v, xpos, action) ==
    IF Clamped(v) THEN mocap_set_action_clamped(v, xpos, action)
    ELSE mocap_set_action_base(xpos, action)

\* step, lines 80-81: a = np.clip(a, -1, 1); a[:3] * self._pos_action_scale
ScaledAction(a) ==
    [i \in 1..3 |-> Clip(a[i], -ActionLimit, ActionLimit) * pos_action_scale]

\* do_simulation: the engine either leaves the bodies where they are or
\* brings the end effector to the mocap target, moving the door or not; the
\* outcome is the engine's
DoSimulation(target) ==
    {[xpos |-> body_xpos, q |-> qpos0, v |-> 0]} \cup
    {[xpos |-> target, q |-> Clip(qpos0 + d * DoorStep, -JointLimit, JointLimit),
      v |-> d] : d \in {-1, 0, 1}}

\* ------------------------------------------------------- goal sampler ----
\* values np.random.uniform(goal_space.low, goal_space.high) can draw
AngleSamples == {goal_low, 0, goal_high}

\* all batches of n one-dimensional goals over a set of angles
Batches(n, S) == {[i \in 1..n |-> <<f[i]>>] : f \in [1..n -> S]}

\* SawyerDoorEnv.sample_goals: the possible values of 'state_desired_goal'
sample_goals_base(fix, batch_size) ==
    IF fix
    THEN {[err |-> "none", goals |-> [i \in 1..batch_size |-> fixed_goal]]}
    ELSE {[err |-> "none", goals |-> b] : b \in Batches(batch_size, AngleSamples)}

\* corners of the goal_space box of SawyerDoorPushOpenAndReachEnv
ReachGoals ==
    {<<-20, 100, ZHeight, 0>>, <<20, 120, ZHeight, 5000>>, <<20, 100, ZHeight, 0>>}

\* SawyerDoorPushOpenAndReachEnv.sample_goals: uniform(low, high, batch_size)
\* with 4-vectors low and high is one array of shape (4,) when batch_size
\* is 4 and a shape mismatch otherwise
sample_goals_reach(batch_size) ==
    IF batch_size = 4
    THEN {[err |-> "none", goals |-> <<g>>] : g \in ReachGoals}
    ELSE {[err |-> "ValueError", goals |-> <<>>]}

sample_goals(v, fix, batch_size) ==
    IF v = "reach" THEN sample_goals_reach(batch_size)
    ELSE sample_goals_base(fix, batch_size)

\* goal_dim
goal_dim(v) == IF v = "reach" THEN 4 ELSE 1

\* get_goal: the stored goal (the 4-vector of the reach variant)
get_goal ==
    IF variant = "reach" THEN goal_pos \o goal_angle ELSE goal_angle

\* ------------------------------------------------------------- state ----
NoRet == [op |-> "init", err |-> "none", arg |-> <<>>, desired |-> <<>>,
          reward |-> <<>>, done |-> FALSE, goals |-> <<>>]

NoSnap == [taken |-> FALSE, joint |-> <<>>, mocap_state |-> "none", goal |-> <<>>]

NoSnapS == [mocap_pos |-> <<>>, mocap_quat |-> <<>>, joint |-> <<>>,
            goal |-> <<>>, only_steps |-> FALSE]

\* end-effector positions of the initial joint configuration
EEStart == {<<-31, 99, 30>>, <<19, 139, 12>>}

\* where the scene description puts the mocap body
MocapStart == <<0, 0, 0>>
MocapStartQuat == CanonicalQuat

\* the state after construction: reset() has put the joints at init_angles
\* and stored a sampled goal; the reach variant stored the goal it was given
Init ==
    /\ variant \in Variants
    /\ reward_type \in (IF variant = "reach" THEN {"unset"} ELSE RewardTypes)
    /\ fix_goal \in (IF variant = "reach" THEN {FALSE} ELSE BOOLEAN)
    /\ init_xpos \in EEStart
    /\ body_xpos = init_xpos
    /\ qpos0 = 0
    /\ qvel0 = 0
    /\ mocap_pos = MocapStart
    /\ mocap_quat = MocapStartQuat
    /\ \E g \in (IF variant = "reach" THEN ReachGoals
                 ELSE {r.goals[1] : r \in sample_goals_base(fix_goal, 1)}) :
          IF variant = "reach"
          THEN goal_angle = <<g[4]>> /\ goal_pos = SubSeq(g, 1, 3)
          ELSE goal_angle = g /\ goal_pos = <<>>
    /\ snap = NoSnap
    /\ snapS = NoSnapS
    /\ phase = "Ready"
    /\ ret = NoRet
    /\ nops = 0

\* book-keeping shared by the operations: the call is counted, and the
\* snapshot history stays "only steps" through steps that returned
Tick(isStep) ==
    /\ nops' = nops + 1
    /\ snapS' = [snapS EXCEPT !.only_steps = @ /\ isStep]

\* ---------------------------------------------------------- operations ----
\* reset(resample_on_reset): set_state(init_angles, 0), then the goal
\* sample_goal() unbatches from sample_goals(1).  In the reach variant
\* sample_goals returns no dictionary and reset raises after set_state.
Reset(resample) ==
    /\ nops < MaxOps
    /\ body_xpos' = init_xpos
    /\ qpos0' = 0
    /\ qvel0' = 0
    /\ UNCHANGED <<config, mocap_pos, mocap_quat, goal_pos, snap>>
    /\ IF resample
       THEN \E r \in sample_goals(variant, fix_goal, 1) :
              IF variant = "reach"
              THEN /\ goal_angle' = goal_angle
                   /\ phase' = phase
                   /\ ret' = [NoRet EXCEPT !.op = "reset", !.err = "ValueError"]
              ELSE /\ goal_angle' = r.goals[1]
                   /\ phase' = "Ready"
                   /\ ret' = [NoRet EXCEPT !.op = "reset",
                                           !.desired = r.goals[1]]
       ELSE /\ goal_angle' = goal_angle
            /\ phase' = "Ready"
            /\ ret' = [NoRet EXCEPT !.op = "reset_keep", !.desired = goal_angle]
    /\ Tick(FALSE)

\* SawyerDoorPushOpenAndReachEnv._compute_reward(obs, goal, action) reads
\* obs[-1] and obs[:3]; step hands it the dictionary _get_obs returns, which
\* has no key -1
reach_compute_reward(obs, goal, action) ==
    [err |-> "KeyError", val |-> <<>>]

\* the reward step computes from the observation
StepReward(obs, a) ==
    IF variant = "reach"
    THEN reach_compute_reward(obs, get_goal, a)
    ELSE compute_reward(reward_type, obs.achieved_goal, obs.desired_goal)

\* the done flag step returns
StepDone == FALSE

\* step that relabels the stored goal with the achieved one
Step_Relabel(a) ==
    /\ nops < MaxOps
    /\ LET m == mocap_set_action(variant, body_xpos, ScaledAction(a))
       IN  \E s \in DoSimulation(m.pos) :
             LET obs == get_obs(s.xpos, s.q, goal_angle)
                 rw == StepReward(obs, a)
             IN  /\ mocap_pos' = m.pos
                 /\ mocap_quat' = m.quat
                 /\ body_xpos' = s.xpos
                 /\ qpos0' = s.q
                 /\ qvel0' = s.v
                 /\ goal_angle' = obs.achieved_goal
                 /\ IF rw.err = "none"
                    THEN /\ phase' = "Stepping"
                         /\ ret' = [NoRet EXCEPT !.op = "step",
                                        !.desired = obs.desired_goal,
                                        !.reward = rw.val, !.done = StepDone]
                    ELSE /\ phase' = phase
                         /\ ret' = [NoRet EXCEPT !.op = "step",
                                        !.err = rw.err]
                 /\ Tick(rw.err = "none")
    /\ UNCHANGED <<config, goal_pos, snap>>

\* step(a): clip, mocap_set_action, do_simulation, observation, reward
Step(a) ==
    /\ nops < MaxOps
    /\ LET m == mocap_set_action(variant, body_xpos, ScaledAction(a))
       IN  \E s \in DoSimulation(m.pos) :
             LET obs == get_obs(s.xpos, s.q, goal_angle)
                 rw == StepReward(obs, a)
             IN  /\ mocap_pos' = m.pos
                 /\ mocap_quat' = m.quat
                 /\ body_xpos' = s.xpos
                 /\ qpos0' = s.q
                 /\ qvel0' = s.v
                 /\ IF rw.err = "none"
                    THEN /\ phase' = "Stepping"
                         /\ ret' = [NoRet EXCEPT !.op = "step",
                                        !.desired = obs.desired_goal,
                                        !.reward = rw.val, !.done = StepDone]
                    ELSE /\ phase' = phase
                         /\ ret' = [NoRet EXCEPT !.op = "step",
                                        !.err = rw.err]
                 /\ Tick(rw.err = "none")
    /\ UNCHANGED <<config, goal_angle, goal_pos, snap>>

\* compute_rewards(achieved_goals, desired_goals, info) called directly
ComputeRewards(achieved, desired) ==
    /\ nops < MaxOps
    /\ variant # "reach"
    /\ LET rw == compute_rewards(reward_type, achieved, desired)
       IN  ret' = [NoRet EXCEPT !.op = "compute_rewards", !.arg = achieved,
                               !.desired = desired, !.err = rw.err,
                               !.reward = rw.val]
    /\ UNCHANGED <<config, sim, goal_angle, goal_pos, snap, phase>>
    /\ Tick(FALSE)

\* sample_goals(batch_size) called directly
SampleGoals(batch_size) ==
    /\ nops < MaxOps
    /\ \E r \in sample_goals(variant, fix_goal, batch_size) :
          ret' = [NoRet EXCEPT !.op = "sample_goals", !.err = r.err,
                              !.goals = r.goals]
    /\ UNCHANGED <<config, sim, goal_angle, goal_pos, snap, phase>>
    /\ Tick(FALSE)

\* ------------------------------------------------------- goal setters ----
Min(a, b) == IF a < b THEN a ELSE b

\* goal[-1] and goal[:3] of a numpy vector
Last(goal) == <<goal[Len(goal)]>>
FirstThree(goal) == SubSeq(goal, 1, Min(3, Len(goal)))

\* set_goal_angle(angle): stores the goal, then writes qpos[0] and qvel[0];
\* qpos[0] = angle raises for an array that is not of size 1, after the goal
\* has been stored and before set_state
set_goal_angle(angle) ==
    IF Len(angle) = 1
    THEN [err |-> "none", goal |-> angle, q |-> angle[1], v |-> 0]
    ELSE [err |-> "ValueError", goal |-> angle, q |-> qpos0, v |-> qvel0]

\* set_goal_pos(xyz): ten rounds of setting the mocap target and simulating
set_goal_pos(xyz) ==
    {[mocap_pos |-> xyz, mocap_quat |-> CanonicalQuat, xpos |-> x, q |-> q,
      v |-> IF q < qpos0 THEN -1 ELSE IF q > qpos0 THEN 1 ELSE 0] :
        x \in {body_xpos, xyz},
        q \in {Clip(qpos0 + k * DoorStep, -JointLimit, JointLimit) :
                 k \in (-SettleSteps)..SettleSteps}}

\* goal vectors a caller hands to set_goal and set_to_goal
GoalArgs(v) ==
    IF v = "reach"
    THEN {<<20, 120, ZHeight, 5000>>, <<-20, 100, ZHeight, 0, 2500>>}
    ELSE {<<2500>>, fixed_goal}

\* the end-effector positions the action-limited set_to_goal draws
LimitedEEPos == {<<-20, 100, ZHeight>>, <<20, 120, ZHeight>>}

\* SawyerDoorPushOpenAndReachEnv.set_goal
SetGoal(goal) ==
    /\ nops < MaxOps
    /\ variant = "reach"
    /\ goal_angle' = Last(goal)
    /\ goal_pos' = FirstThree(goal)
    /\ ret' = [NoRet EXCEPT !.op = "set_goal", !.arg = goal]
    /\ UNCHANGED <<config, sim, snap, phase>>
    /\ Tick(FALSE)

\* SawyerDoorEnv.set_to_goal: set_goal_angle(goal['state_desired_goal'])
SetToGoalBase(goal) ==
    /\ nops < MaxOps
    /\ variant \in {"base", "push", "pull"}
    /\ LET r == set_goal_angle(goal)
       IN  /\ goal_angle' = r.goal
           /\ qpos0' = r.q
           /\ qvel0' = r.v
           /\ ret' = [NoRet EXCEPT !.op = "set_to_goal", !.arg = goal,
                                   !.err = r.err]
    /\ UNCHANGED <<config, body_xpos, mocap_pos, mocap_quat, goal_pos, snap, phase>>
    /\ Tick(FALSE)

\* set_to_goal of the action-limited class (a drawn end-effector position,
\* then the angle) and of the reach class (goal[:3], then goal[-1])
SetToGoalPos(goal) ==
    /\ nops < MaxOps
    /\ variant \in {"limited", "reach"}
    /\ LET angle == IF variant = "limited" THEN goal ELSE Last(goal)
           r == set_goal_angle(angle)
           ends == {[mocap_pos |-> p.mocap_pos, mocap_quat |-> p.mocap_quat,
                     xpos |-> p.xpos,
                     q |-> IF r.err = "none" THEN r.q ELSE p.q,
                     v |-> IF r.err = "none" THEN r.v ELSE p.v] :
                    p \in UNION {set_goal_pos(xyz) :
                                   xyz \in (IF variant = "limited" THEN LimitedEEPos
                                            ELSE {FirstThree(goal)})}}
       IN  \E e \in ends :
              /\ mocap_pos' = e.mocap_pos
              /\ mocap_quat' = e.mocap_quat
              /\ body_xpos' = e.xpos
              /\ qpos0' = e.q
              /\ qvel0' = e.v
              /\ goal_angle' = r.goal
              /\ ret' = [NoRet EXCEPT !.op = "set_to_goal", !.arg = goal,
                                      !.err = r.err]
    /\ UNCHANGED <<config, goal_pos, snap, phase>>
    /\ Tick(FALSE)

\* ----------------------------------------------------------- snapshot ----
\* get_env_state: sim.get_state() copies the joint state, the goal is
\* copied, and data.mocap_pos, data.mocap_quat are the live arrays
GetEnvState ==
    /\ nops < MaxOps
    /\ snap' = [taken |-> TRUE, joint |-> <<body_xpos, qpos0, qvel0>>,
                mocap_state |-> "data.mocap", goal |-> goal_angle]
    /\ snapS' = [mocap_pos |-> mocap_pos, mocap_quat |-> mocap_quat,
                 joint |-> <<body_xpos, qpos0, qvel0>>, goal |-> get_goal,
                 only_steps |-> TRUE]
    /\ nops' = nops + 1
    /\ ret' = [NoRet EXCEPT !.op = "get_env_state"]
    /\ UNCHANGED <<config, sim, goal_angle, goal_pos, phase>>

\* what the mocap_state of a snapshot holds when it is read
MocapOf(state) == <<mocap_pos, mocap_quat>>

\* set_env_state(state)
SetEnvState ==
    /\ nops < MaxOps
    /\ snap.taken
    /\ body_xpos' = snap.joint[1]
    /\ qpos0' = snap.joint[2]
    /\ qvel0' = snap.joint[3]
    /\ mocap_pos' = MocapOf(snap)[1]
    /\ mocap_quat' = MocapOf(snap)[2]
    /\ goal_angle' = snap.goal
    /\ ret' = [NoRet EXCEPT !.op = "set_env_state"]
    /\ nops' = nops + 1
    /\ UNCHANGED <<config, goal_pos, snap, snapS, phase>>

\* --------------------------------------------------------------- inputs ----
RawActions ==
    {<<-MaxRaw, -1, 0, 0>>, <<1, MaxRaw, MaxRaw, -MaxRaw>>}

\* achieved and desired goals handed to compute_rewards, as batches of two:
\* 0.0 against 0.025 and 0.01, then a difference of the threshold 0.02
\* itself and a difference of 0
RewardInputs ==
    {<<(<<0, 0>>), (<<250, 100>>)>>, <<(<<0, 100>>), (<<200, 100>>)>>}

BatchSizes(v) == IF v = "reach" THEN {1, 4} ELSE {2}

Next ==
    \/ \E resample \in BOOLEAN : Reset(resample)
    \/ \E a \in RawActions : Step(a)
    \/ \E io \in RewardInputs : ComputeRewards(io[1], io[2])
    \/ \E n \in BatchSizes(variant) : SampleGoals(n)
    \/ \E g \in GoalArgs(variant) : SetGoal(g)
    \/ \E g \in GoalArgs(variant) : SetToGoalBase(g)
    \/ \E g \in GoalArgs(variant) : SetToGoalPos(g)
    \/ GetEnvState
    \/ SetEnvState

Spec == Init /\ [][Next]_vars

\* ====================================================================
\* Properties
\* ====================================================================

\* C1: under reward_type 'hand_success', compute_rewards returns for every
\* element -1 when |achieved - desired| >= indicator_threshold and 0 when
\* it is below the threshold (0.0 against 0.025 gives -1, against 0.01
\* gives 0).
C1_HandSuccessIndicator ==
    (ret.op = "compute_rewards" /\ reward_type = "hand_success") =>
        /\ ret.err = "none"
        /\ \A i \in 1..Len(ret.reward) :
              ret.reward[i] =
                 (IF Abs(At(ret.arg, i) - At(ret.desired, i)) >= indicator_threshold
                  THEN -1 ELSE 0)

\* the workspace box of a variant: the x and y ranges its mocap_set_action
\* clamps to, and the fixed height
InBox(v, pos) ==
    /\ pos[3] = ZHeight
    /\ Clamped(v) => /\ XRange(v)[1] <= pos[1] /\ pos[1] <= XRange(v)[2]
                     /\ YRange(v)[1] <= pos[2] /\ pos[2] <= YRange(v)[2]

\* C2: in every variant, from every end-effector position and for every raw
\* action, the mocap target committed by the mocap_set_action call of step
\* lies in the variant's workspace box, with z = 0.06.
C2_MocapInBox ==
    ret.op = "step" => InBox(variant, mocap_pos)

\* a step of the action-limited variant whose target was clamped to the
\* upper y limit
C2_Witness ==
    /\ ret.op = "step"
    /\ variant = "limited"
    /\ mocap_pos = <<20, 140, ZHeight>>

\* C3: set_env_state(snap), after any number of steps that followed
\* snap = get_env_state() in state S, restores the joint state, the mocap
\* target position and orientation and the stored goal of S.
C3_SnapshotRestores ==
    (ret.op = "set_env_state" /\ snapS.only_steps) =>
        /\ <<body_xpos, qpos0, qvel0>> = snapS.joint
        /\ mocap_pos = snapS.mocap_pos
        /\ mocap_quat = snapS.mocap_quat
        /\ get_goal = snapS.goal

\* C4: with fix_goal=True and fixed_goal=(0.15, 0.6, 0.3), every resampling
\* reset returns the desired_goal 0.3, the one-dimensional door-angle
\* component of the fixed goal.
C4_FixedGoalIsAngle ==
    (fix_goal /\ ret.op = "reset") =>
        /\ ret.desired = <<fixed_goal[3]>>
        /\ Len(ret.desired) = goal_dim(variant)

\* C5: step never changes the stored goal, and the desired_goal it returns
\* is that goal; the stored goal changes only in reset with resampling,
\* set_goal, set_to_goal and set_env_state; reset without resampling keeps it.
C5_GoalOnlySetExplicitly ==
    [][/\ ret'.op = "step" =>
             /\ get_goal' = get_goal
             /\ ret'.err = "none" => ret'.desired = goal_angle
       /\ ret'.op = "reset_keep" => (get_goal' = get_goal /\ ret'.desired = goal_angle)
       /\ get_goal' # get_goal =>
             ret'.op \in {"reset", "set_goal", "set_to_goal", "set_env_state"}]_vars

\* a step that returned after the goal had been set to another value and the
\* door had moved
C5_Witness ==
    /\ ret.op = "step"
    /\ ret.err = "none"
    /\ ret.desired = <<2500>>
    /\ qpos0 # 2500

\* C6: in every variant, a step of a supported configuration returns
\* done = False and leaves the environment in Stepping; reset leads to
\* Ready; there is no terminal state.
C6_NeverTerminates ==
    /\ phase \in {"Ready", "Stepping"}
    /\ (ret.op = "step" /\ reward_type # "bogus") =>
          (ret.err = "none" /\ ret.done = FALSE /\ phase = "Stepping")
    /\ (ret.op \in {"reset", "reset_keep"} /\ ret.err = "none") => phase = "Ready"

C8_RejectsWrongDimension ==
    [][(ret'.op \in {"set_goal", "set_to_goal"} /\ Len(ret'.arg) # goal_dim(variant)) =>
          (ret'.err # "none" /\ get_goal' = get_goal /\ sim' = sim)]_vars

\* the goal box of a variant: the angle range min_angle..max_angle, and for
\* the reach variant the position ranges
InGoalBox(v, g) ==
    IF v = "reach"
    THEN /\ Len(g) = 4
         /\ -20 <= g[1] /\ g[1] <= 20
         /\ 100 <= g[2] /\ g[2] <= 120
         /\ g[3] = ZHeight
         /\ min_angle(v) <= g[4] /\ g[4] <= max_angle(v)
    ELSE /\ Len(g) = 1
         /\ min_angle(v) <= g[1] /\ g[1] <= max_angle(v)

\* C9: with fix_goal=False every goal sample_goals returns, and every goal
\* reset stores, lies in the goal box of the variant.
C9_GoalsInBox ==
    ~fix_goal =>
        /\ (ret.op = "sample_goals" /\ ret.err = "none") =>
              \A i \in 1..Len(ret.goals) : InGoalBox(variant, ret.goals[i])
        /\ (ret.op = "reset" /\ ret.err = "none") => InGoalBox(variant, get_goal)

====
